---- MODULE Spec2Model ----
(***************************************************************************)
(* Model of the assignment-statement analyzer of taafl (src/src/analyzer.rs) *)
(* A line is a sequence of one-character strings.  analyze_line is run as  *)
(* a state machine: Lexer::next_token once per step, then the recursive-   *)
(* descent Parser one grammar function (or loop iteration) per step, then  *)
(* Parser::finish.  Under Spec one behaviour makes a first call and then a  *)
(* second call on the same line or on a case or whitespace variant of it;  *)
(* under SpecUI the calls are made by the window of src/src/ui.rs.         *)
(***************************************************************************)
EXTENDS Integers, Sequences, FiniteSets, TLC

VARIABLES
    input,            \* the &str handed to analyze_line, as a sequence of chars
    lexer,            \* Lexer { pos, .. } plus the Vec tokenize() is filling
    parser,           \* Parser { tokens, current_pos, ids_*, const_*, left_array_name }
    pc,               \* where the current call stands
    result,           \* None, or Some(what the current call returned)
    first,            \* None, or Some([input, result]) of the finished first call
    overflow_checks,  \* build profile: TRUE = arithmetic overflow panics (dev), FALSE = wraps (release)
    ui,               \* TaaflUIState of ui.rs { content, syntax_output, _syntax_success, _semantics_output }
    handler           \* the message whose arm of update() is waiting for analyze_line ("none": a direct call)

vars == <<input, lexer, parser, pc, result, first, overflow_checks, ui, handler>>

None == <<>>
Some(x) == <<x>>

(***************************************************************************)
(* Characters                                                              *)
(***************************************************************************)
UpperSeq == <<"A","B","C","D","E","F","G","H","I","J","K","L","M",
              "N","O","P","Q","R","S","T","U","V","W","X","Y","Z">>
LowerSeq == <<"a","b","c","d","e","f","g","h","i","j","k","l","m",
              "n","o","p","q","r","s","t","u","v","w","x","y","z">>
DigitSeq == <<"0","1","2","3","4","5","6","7","8","9">>

Range(s) == {s[i] : i \in 1..Len(s)}
UpperSet == Range(UpperSeq)
LowerSet == Range(LowerSeq)
DigitSet == Range(DigitSeq)
UpperOf == [c \in LowerSet |-> UpperSeq[CHOOSE i \in 1..Len(LowerSeq) : LowerSeq[i] = c]]
LowerOf == [c \in UpperSet |-> LowerSeq[CHOOSE i \in 1..Len(UpperSeq) : UpperSeq[i] = c]]
ValueOf == [c \in DigitSet |-> (CHOOSE i \in 1..Len(DigitSeq) : DigitSeq[i] = c) - 1]

is_ascii_alphabetic(c) == c \in UpperSet \/ c \in LowerSet
is_ascii_digit(c) == c \in DigitSet
is_ascii_alphanumeric(c) == is_ascii_alphabetic(c) \/ is_ascii_digit(c)
\* char::is_whitespace on a byte read as a char (0x0B, 0x85 and 0xA0 are
\* whitespace too; they have no TLA+ string escape and are left out)
WhiteSet == {" ", "\t", "\n", "\r", "\f"}
is_whitespace(c) == c \in WhiteSet

\* char::to_uppercase on one ASCII char
to_uppercase_char(c) == IF c \in LowerSet THEN UpperOf[c] ELSE c

\* String::to_uppercase
to_uppercase(s) == [i \in 1..Len(s) |-> to_uppercase_char(s[i])]

DigitValue(c) == ValueOf[c]

I32_MAX == 2147483647
MIN_CONST == 1
MAX_CONST == 32767
MAX_IDENT_LEN == 8

\* str::parse::<i32> on a non-empty run of digits: None on overflow.
\* The accumulator is checked before it is multiplied, as checked_mul /
\* checked_add do.
RECURSIVE ParseDigits(_, _, _)
ParseDigits(s, i, acc) ==
    IF i > Len(s) THEN Some(acc)
    ELSE LET d == DigitValue(s[i]) IN
         IF acc > (I32_MAX - d) \div 10 THEN None
         ELSE ParseDigits(s, i + 1, acc * 10 + d)

parse_i32(s) == ParseDigits(s, 1, 0)

\* format!("{}", n) for n >= 0
RECURSIVE FormatInt(_)
FormatInt(n) ==
    IF n < 10 THEN <<DigitSeq[n + 1]>>
    ELSE Append(FormatInt(n \div 10), DigitSeq[(n % 10) + 1])

(***************************************************************************)
(* Tokens and errors                                                       *)
(***************************************************************************)
\* (usize, Token): offset, variant and the variant's payload
Tok(pos, t, id, num, op) == [pos |-> pos, t |-> t, id |-> id, num |-> num, op |-> op]
Identifier(pos, s) == Tok(pos, "Identifier", s, 0, "")
Constant(pos, n)   == Tok(pos, "Constant", <<>>, n, "")
Operation(pos, c)  == Tok(pos, "Operation", <<>>, 0, c)
Plain(pos, t)      == Tok(pos, t, <<>>, 0, "")

\* enum Error: variant, offset, message (message key and its formatted argument)
Error(kind, pos, msg, arg) == [kind |-> kind, pos |-> pos, msg |-> msg, arg |-> arg]

LexOk(pos, tok) == [pos |-> pos, ok |-> TRUE, tok |-> tok, err |-> None]
LexErr(pos, e)  == [pos |-> pos, ok |-> FALSE, tok |-> None, err |-> Some(e)]

(***************************************************************************)
(* Lexer.  Offsets are 0-based as in the source: input[pos] is inp[pos+1]. *)
(***************************************************************************)
peek_char(inp, pos) == IF pos < Len(inp) THEN Some(inp[pos + 1]) ELSE None

\* first offset >= pos whose char is outside the class (or the length)
RECURSIVE ScanDigits(_, _)
ScanDigits(inp, pos) ==
    IF pos < Len(inp) /\ is_ascii_digit(inp[pos + 1])
    THEN ScanDigits(inp, pos + 1) ELSE pos

RECURSIVE ScanAlnum(_, _)
ScanAlnum(inp, pos) ==
    IF pos < Len(inp) /\ is_ascii_alphanumeric(inp[pos + 1])
    THEN ScanAlnum(inp, pos + 1) ELSE pos

RECURSIVE skip_spaces_blanks_only(_, _)
skip_spaces_blanks_only(inp, pos) ==
    IF pos < Len(inp) /\ inp[pos + 1] = " "
    THEN skip_spaces_blanks_only(inp, pos + 1) ELSE pos

RECURSIVE skip_spaces(_, _)
skip_spaces(inp, pos) ==
    IF pos < Len(inp) /\ is_whitespace(inp[pos + 1])
    THEN skip_spaces(inp, pos + 1) ELSE pos

\* Lexer::lex_number, entered with self.pos = pos on the first digit
lex_number(inp, pos) ==
    LET start_pos == pos
        end == ScanDigits(inp, pos)
        num_str == SubSeq(inp, pos + 1, end)
        n == parse_i32(num_str)
    IN  IF n /= None
        THEN IF n[1] < MIN_CONST \/ n[1] > MAX_CONST
             THEN LexErr(end, Error("Semantic", start_pos, "ConstOutOfRange", FormatInt(n[1])))
             ELSE LexOk(end, Constant(start_pos, n[1]))
        ELSE LexErr(end, Error("Lexical", start_pos, "CannotParseNumber", num_str))

lex_identifier_keep_case(inp, pos) ==
    LET start_pos == pos - 1
        end == ScanAlnum(inp, pos)
        ident == SubSeq(inp, start_pos + 1, end)
    IN  IF Len(ident) > MAX_IDENT_LEN
        THEN LexErr(end, Error("Semantic", start_pos, "IdentTooLong", ident))
        ELSE LexOk(end, Identifier(start_pos, ident))

lex_identifier_limit_off_by_one(inp, pos) ==
    LET start_pos == pos - 1
        end == ScanAlnum(inp, pos)
        ident == to_uppercase(SubSeq(inp, start_pos + 1, end))
    IN  IF Len(ident) > MAX_IDENT_LEN + 1
        THEN LexErr(end, Error("Semantic", start_pos, "IdentTooLong", ident))
        ELSE LexOk(end, Identifier(start_pos, ident))

\* Lexer::lex_identifier, entered with self.pos = pos just after first_char
lex_identifier(inp, pos) ==
    LET start_pos == pos - 1
        end == ScanAlnum(inp, pos)
        ident == to_uppercase(SubSeq(inp, start_pos + 1, end))
    IN  IF Len(ident) > MAX_IDENT_LEN
        THEN LexErr(end, Error("Semantic", start_pos, "IdentTooLong", ident))
        ELSE LexOk(end, Identifier(start_pos, ident))

Operations == {"+", "-", "*", "/", ">", "<", "=", "#"}

lexer_next_token_number_first(inp, pos0) ==
    LET start_pos == skip_spaces(inp, pos0)
        c0 == peek_char(inp, start_pos)
    IN  IF c0 = None THEN LexOk(start_pos, Plain(start_pos, "End"))
        ELSE LET c == c0[1]
                 pos == start_pos + 1          \* after next_char()
             IN
             IF is_ascii_alphabetic(c) THEN lex_identifier(inp, pos)
             ELSE IF is_ascii_digit(c) THEN
                 LET number == lex_number(inp, pos - 1)
                     after == peek_char(inp, number.pos)
                 IN  IF number.ok /\ after /= None /\ is_ascii_alphabetic(after[1])
                     THEN LexErr(number.pos, Error("Syntax", start_pos, "IdentStartsWithDigit", <<>>))
                     ELSE number
             ELSE IF c = "[" THEN LexOk(pos, Plain(start_pos, "LSquare"))
             ELSE IF c = "]" THEN LexOk(pos, Plain(start_pos, "RSquare"))
             ELSE IF c = "," THEN LexOk(pos, Plain(start_pos, "Comma"))
             ELSE IF c = ":" THEN
                 IF peek_char(inp, pos) = Some("=")
                 THEN LexOk(pos + 1, Plain(start_pos, "Assign"))
                 ELSE LexErr(pos, Error("Syntax", start_pos, "ExpectedEqAfterColon", <<>>))
             ELSE IF c = ";" THEN LexOk(pos, Plain(start_pos, "Semicolon"))
             ELSE IF c \in Operations THEN LexOk(pos, Operation(start_pos, c))
             ELSE LexErr(pos, Error("Syntax", start_pos, "InvalidChar", <<c>>))

lexer_next_token_or_error(inp, pos0) ==
    LET start_pos == skip_spaces(inp, pos0)
        c0 == peek_char(inp, start_pos)
    IN  IF c0 = None THEN LexOk(start_pos, Plain(start_pos, "End"))
        ELSE LET c == c0[1]
                 pos == start_pos + 1          \* after next_char()
             IN
             IF is_ascii_alphabetic(c) THEN lex_identifier(inp, pos)
             ELSE IF is_ascii_digit(c) THEN
                 LET number == lex_number(inp, pos - 1)
                     after == peek_char(inp, number.pos)
                 IN  IF after /= None /\ is_ascii_alphabetic(after[1])
                     THEN LexErr(number.pos, Error("Syntax", start_pos, "IdentStartsWithDigit", <<>>))
                     ELSE number
             ELSE IF c = "[" THEN LexOk(pos, Plain(start_pos, "LSquare"))
             ELSE IF c = "]" THEN LexOk(pos, Plain(start_pos, "RSquare"))
             ELSE IF c = "," THEN LexOk(pos, Plain(start_pos, "Comma"))
             ELSE IF c = ":" THEN
                 IF peek_char(inp, pos) = Some("=")
                 THEN LexOk(pos + 1, Plain(start_pos, "Assign"))
                 ELSE LexErr(pos, Error("Syntax", start_pos, "ExpectedEqAfterColon", <<>>))
             ELSE IF c = ";" THEN LexOk(pos, Plain(start_pos, "Semicolon"))
             ELSE IF c \in Operations THEN LexOk(pos, Operation(start_pos, c))
             ELSE LexErr(pos, Error("Syntax", start_pos, "InvalidChar", <<c>>))

lexer_next_token_ends_at_error(inp, pos0) ==
    LET r == lexer_next_token_or_error(inp, pos0) IN
    IF r.ok THEN r ELSE LexOk(r.pos, Plain(r.err[1].pos, "End"))

\* Lexer::next_token from self.pos = pos0: the new pos and Ok((start_pos, token)) or Err
lexer_next_token(inp, pos0) ==
    LET start_pos == skip_spaces(inp, pos0)
        c0 == peek_char(inp, start_pos)
    IN  IF c0 = None THEN LexOk(start_pos, Plain(start_pos, "End"))
        ELSE LET c == c0[1]
                 pos == start_pos + 1          \* after next_char()
             IN
             IF is_ascii_alphabetic(c) THEN lex_identifier(inp, pos)
             ELSE IF is_ascii_digit(c) THEN
                 LET number == lex_number(inp, pos - 1)
                     after == peek_char(inp, number.pos)
                 IN  IF after /= None /\ is_ascii_alphabetic(after[1])
                     THEN LexErr(number.pos, Error("Syntax", start_pos, "IdentStartsWithDigit", <<>>))
                     ELSE number
             ELSE IF c = "[" THEN LexOk(pos, Plain(start_pos, "LSquare"))
             ELSE IF c = "]" THEN LexOk(pos, Plain(start_pos, "RSquare"))
             ELSE IF c = "," THEN LexOk(pos, Plain(start_pos, "Comma"))
             ELSE IF c = ":" THEN
                 IF peek_char(inp, pos) = Some("=")
                 THEN LexOk(pos + 1, Plain(start_pos, "Assign"))
                 ELSE LexErr(pos, Error("Syntax", start_pos, "ExpectedEqAfterColon", <<>>))
             ELSE IF c = ";" THEN LexOk(pos, Plain(start_pos, "Semicolon"))
             ELSE IF c \in Operations THEN LexOk(pos, Operation(start_pos, c))
             ELSE LexErr(pos, Error("Syntax", start_pos, "InvalidChar", <<c>>))

(***************************************************************************)
(* Parser.  tokens.next() is idx + 1; a usize that wrapped below zero is   *)
(* kept as the negative number congruent to it modulo 2^64.                *)
(***************************************************************************)
\* Parser::new
ParserNew(tokens, input_str) ==
    [tokens |-> tokens, idx |-> 0, current_pos |-> 0, input_str |-> input_str,
     ids_array |-> {}, ids_index |-> {}, ids_expr |-> {},
     const_index |-> {}, const_expr |-> {}, left_array_name |-> None]

\* unsigned a > b on values kept modulo 2^64
usize_gt(a, b) == IF (a < 0) = (b < 0) THEN a > b ELSE a < 0

\* outcome of a parser function: the parser after it, and Ok / Err(e) / panic
POk(p)     == [p |-> p, status |-> "ok", err |-> None, val |-> None]
PVal(p, v) == [p |-> p, status |-> "ok", err |-> None, val |-> Some(v)]
PErr(p, e) == [p |-> p, status |-> "err", err |-> Some(e), val |-> None]
PPanic(p)  == [p |-> p, status |-> "panic", err |-> None, val |-> None]

\* Parser::peek
peek(p) == IF p.idx < Len(p.tokens) THEN Some(p.tokens[p.idx + 1]) ELSE None

parser_next_token_past_end(p) ==
    IF p.idx < Len(p.tokens)
    THEN LET pair == p.tokens[p.idx + 1]
         IN  PVal([p EXCEPT !.idx = @ + 1, !.current_pos = pair.pos], Some(pair))
    ELSE PVal([p EXCEPT !.current_pos = Len(p.input_str)], None)

parser_next_token_keeps_pos(p) ==
    IF p.idx < Len(p.tokens)
    THEN LET pair == p.tokens[p.idx + 1]
         IN  PVal([p EXCEPT !.idx = @ + 1, !.current_pos = pair.pos], Some(pair))
    ELSE PVal(p, None)

\* Parser::next_token: val is the Option<(usize, Token)> returned
parser_next_token(p) ==
    IF p.idx < Len(p.tokens)
    THEN LET pair == p.tokens[p.idx + 1]
         IN  PVal([p EXCEPT !.idx = @ + 1, !.current_pos = pair.pos], Some(pair))
    ELSE IF Len(p.input_str) = 0 /\ overflow_checks
         THEN PPanic(p)                       \* attempt to subtract with overflow
         ELSE PVal([p EXCEPT !.current_pos = Len(p.input_str) - 1], None)

\* Parser::expect; expected is the slice of tokens, each as <<variant, payload>>
expect(p, expected, error_message_some, error_message_none) ==
    LET n == parser_next_token(p) IN
    IF n.status = "panic" THEN n
    ELSE IF n.val[1] /= None
    THEN LET t == n.val[1][1] IN
         IF <<t.t, t.op>> \in expected THEN POk(n.p)
         ELSE PErr(n.p, Error("Syntax", n.p.current_pos, error_message_some, <<>>))
    ELSE LET n2 == parser_next_token(n.p) IN
         IF n2.status = "panic" THEN n2
         ELSE PErr(n2.p, Error("Syntax", n2.p.current_pos, error_message_none, <<>>))

\* Parser::parse_identifier
parse_identifier(p) ==
    LET n == parser_next_token(p) IN
    IF n.status = "panic" THEN n
    ELSE IF n.val[1] /= None /\ n.val[1][1].t = "Identifier"
    THEN PVal(n.p, n.val[1][1].id)
    ELSE PErr(n.p, Error("Syntax", n.p.current_pos, "ExpectedIdentifier", <<>>))

\* Parser::parse_constant
parse_constant(p) ==
    LET n == parser_next_token(p) IN
    IF n.status = "panic" THEN n
    ELSE IF n.val[1] /= None /\ n.val[1][1].t = "Constant"
    THEN PVal(n.p, n.val[1][1].num)
    ELSE PErr(n.p, Error("Syntax", n.p.current_pos, "ExpectedConstant", <<>>))

PeekIs(p, t) == peek(p) /= None /\ peek(p)[1].t = t

parse_left_part_head_forgets_target(p) ==
    LET i == parse_identifier(p) IN
    IF i.status /= "ok" THEN [o |-> i, array |-> FALSE]
    ELSE IF PeekIs(i.p, "LSquare")
    THEN LET n == parser_next_token(i.p) IN
         [o |-> POk([n.p EXCEPT !.left_array_name = Some(i.val[1])]), array |-> TRUE]
    ELSE [o |-> POk([i.p EXCEPT !.left_array_name = None]), array |-> FALSE]

parse_left_part_head_no_array(p) ==
    LET i == parse_identifier(p) IN
    IF i.status /= "ok" THEN [o |-> i, array |-> FALSE]
    ELSE IF PeekIs(i.p, "LSquare")
    THEN LET n == parser_next_token(i.p) IN
         [o |-> POk([n.p EXCEPT !.ids_expr = @ \cup {i.val[1]},
                                !.left_array_name = Some(i.val[1])]),
          array |-> TRUE]
    ELSE [o |-> POk([i.p EXCEPT !.left_array_name = None,
                                !.ids_expr = @ \cup {i.val[1]}]),
          array |-> FALSE]

\* Parser::parse_left_part up to the call of parse_index_list (array) or to
\* its return (bare identifier)
parse_left_part_head(p) ==
    LET i == parse_identifier(p) IN
    IF i.status /= "ok" THEN [o |-> i, array |-> FALSE]
    ELSE IF PeekIs(i.p, "LSquare")
    THEN LET n == parser_next_token(i.p) IN
         [o |-> POk([n.p EXCEPT !.ids_array = @ \cup {i.val[1]},
                                !.left_array_name = Some(i.val[1])]),
          array |-> TRUE]
    ELSE [o |-> POk([i.p EXCEPT !.left_array_name = None,
                                !.ids_expr = @ \cup {i.val[1]}]),
          array |-> FALSE]

parse_index_as_expr(p) ==
    IF PeekIs(p, "Identifier")
    THEN LET i == parse_identifier(p) IN
         IF i.status /= "ok" THEN i
         ELSE POk([i.p EXCEPT !.ids_expr = @ \cup {i.val[1]}])
    ELSE IF PeekIs(p, "Constant")
    THEN LET c == parse_constant(p) IN
         IF c.status /= "ok" THEN c
         ELSE POk([c.p EXCEPT !.const_expr = @ \cup {c.val[1]}])
    ELSE PErr(p, Error("Syntax", p.current_pos, "ExpectedIndexAtEnd", <<>>))

\* Parser::parse_index
parse_index(p) ==
    IF peek(p) /= None
    THEN IF PeekIs(p, "Identifier")
         THEN LET i == parse_identifier(p) IN
              IF i.status /= "ok" THEN i
              ELSE POk([i.p EXCEPT !.ids_index = @ \cup {i.val[1]}])
         ELSE IF PeekIs(p, "Constant")
         THEN LET c == parse_constant(p) IN
              IF c.status /= "ok" THEN c
              ELSE POk([c.p EXCEPT !.const_index = @ \cup {c.val[1]}])
         ELSE LET n == parser_next_token(p) IN
              IF n.status = "panic" THEN n
              ELSE PErr(n.p, Error("Syntax", n.p.current_pos, "ExpectedIndex", <<>>))
    ELSE PErr(p, Error("Syntax", p.current_pos, "ExpectedIndexAtEnd", <<>>))

parse_term_no_self_check(p) ==
    IF PeekIs(p, "Identifier")
    THEN LET i == parse_identifier(p) IN
         IF i.status /= "ok" THEN i
         ELSE POk([i.p EXCEPT !.ids_expr = @ \cup {i.val[1]}])
    ELSE IF PeekIs(p, "Constant")
    THEN LET c == parse_constant(p) IN
         IF c.status /= "ok" THEN c
         ELSE POk([c.p EXCEPT !.const_expr = @ \cup {c.val[1]}])
    ELSE LET n == parser_next_token(p) IN
         IF n.status = "panic" THEN n
         ELSE PErr(n.p, Error("Syntax", n.p.current_pos, "ExpectedTerm", <<>>))

parse_term_late_pos(p) ==
    IF PeekIs(p, "Identifier")
    THEN LET i == parse_identifier(p) IN
         IF i.status /= "ok" THEN i
         ELSE LET ident == i.val[1]
                  left_array_name == i.p.left_array_name
              IN  IF left_array_name /= None /\ ident = left_array_name[1]
                  THEN LET n == parser_next_token(i.p) IN
                       IF n.status = "panic" THEN n
                       ELSE PErr(n.p, Error("Semantic", n.p.current_pos, "ArrayOnRightSide", <<>>))
                  ELSE POk([i.p EXCEPT !.ids_expr = @ \cup {ident}])
    ELSE IF PeekIs(p, "Constant")
    THEN LET c == parse_constant(p) IN
         IF c.status /= "ok" THEN c
         ELSE POk([c.p EXCEPT !.const_expr = @ \cup {c.val[1]}])
    ELSE LET n == parser_next_token(p) IN
         IF n.status = "panic" THEN n
         ELSE PErr(n.p, Error("Syntax", n.p.current_pos, "ExpectedTerm", <<>>))

\* Parser::parse_term
parse_term(p) ==
    IF PeekIs(p, "Identifier")
    THEN LET i == parse_identifier(p) IN
         IF i.status /= "ok" THEN i
         ELSE LET ident == i.val[1]
                  pos == i.p.current_pos
                  left_array_name == i.p.left_array_name
              IN  IF left_array_name /= None /\ ident = left_array_name[1]
                  THEN LET n == parser_next_token(i.p) IN
                       IF n.status = "panic" THEN n
                       ELSE PErr(n.p, Error("Semantic", pos, "ArrayOnRightSide", <<>>))
                  ELSE POk([i.p EXCEPT !.ids_expr = @ \cup {ident}])
    ELSE IF PeekIs(p, "Constant")
    THEN LET c == parse_constant(p) IN
         IF c.status /= "ok" THEN c
         ELSE POk([c.p EXCEPT !.const_expr = @ \cup {c.val[1]}])
    ELSE LET n == parser_next_token(p) IN
         IF n.status = "panic" THEN n
         ELSE PErr(n.p, Error("Syntax", n.p.current_pos, "ExpectedTerm", <<>>))

parse_end_accepts_rest(p) ==
    LET n == parser_next_token(p) IN
    IF n.status = "panic" THEN n ELSE POk(n.p)

\* the end of Parser::parse: nothing may follow the terminator
parse_end(p) ==
    LET n == parser_next_token(p) IN
    IF n.status = "panic" THEN n
    ELSE IF n.val[1] /= None
    THEN PErr(n.p, Error("Syntax", n.p.current_pos, "NothingAfterSemicolon", <<>>))
    ELSE POk(n.p)

\* the sequences that list every element of S once: the orders in which a
\* HashSet with a per-instance RandomState may be iterated
Orders(S) ==
    {o \in [1..Cardinality(S) -> S] : \A i, j \in 1..Cardinality(S) : i /= j => o[i] /= o[j]}

Lines(o, role) == [i \in 1..Len(o) |-> <<o[i], role>>]

\* the String finish builds from the lines of a report: for each line the
\* value, " - " with the name of the role, and a newline
RECURSIVE report_string(_, _)
report_string(lines, what) ==
    IF lines = <<>> THEN <<>>
    ELSE (IF what = "ids" THEN Head(lines)[1] ELSE FormatInt(Head(lines)[1]))
         \o <<" - " \o what \o "-" \o Head(lines)[2], "\n">>
         \o report_string(Tail(lines), what)

finish_needs_constant(p, oa, oi, oe, oci, oce) ==
    IF p.const_index /= {} \/ p.const_expr /= {}
    THEN [ids |-> Some(Lines(oa, "array") \o Lines(oi, "index") \o Lines(oe, "expr")),
          consts |-> Some(Lines(oci, "index") \o Lines(oce, "expr"))]
    ELSE [ids |-> None, consts |-> None]

\* Parser::finish; oa .. oce are the iteration orders of the five sets.
\* A report is the sequence of its lines, each <<value, role>>.
finish(p, oa, oi, oe, oci, oce) ==
    IF p.ids_array /= {} \/ p.ids_index /= {} \/ p.ids_expr /= {}
       \/ p.const_index /= {} \/ p.const_expr /= {}
    THEN [ids |-> Some(Lines(oa, "array") \o Lines(oi, "index") \o Lines(oe, "expr")),
          consts |-> Some(Lines(oci, "index") \o Lines(oce, "expr"))]
    ELSE [ids |-> None, consts |-> None]

\* the category prefix format_error puts before the message
Prefix(kind) ==
    CASE kind = "Lexical"  -> "Lexical error: "
      [] kind = "Syntax"   -> "Syntax error: "
      [] kind = "Semantic" -> "Semantic error: "

format_error_with_cursor_no_clamp(inp, pos, category, msg, arg) ==
    [line |-> inp, spaces |-> pos, category |-> category, msg |-> msg, arg |-> arg,
     string |-> inp \o <<"\n">> \o [i \in 1..pos |-> " "]
                \o <<"^", "\n", Prefix(category), msg>> \o arg]

\* format_error_with_cursor: the echoed line, the number of spaces before
\* the caret, the message, and the String built from them (the prefix and
\* the fixed part of the message are one element each, the rest is chars)
format_error_with_cursor(inp, pos, category, msg, arg) ==
    LET cursor_pos == IF usize_gt(pos, Len(inp)) THEN Len(inp) ELSE pos
    IN  [line |-> inp, spaces |-> cursor_pos, category |-> category,
         msg |-> msg, arg |-> arg,
         string |-> inp \o <<"\n">> \o [i \in 1..cursor_pos |-> " "]
                    \o <<"^", "\n", Prefix(category), msg>> \o arg]

\* format_error
format_error(err, inp) ==
    format_error_with_cursor(inp, err.pos, err.kind, err.msg, err.arg)

\* what analyze_line returns; err is the Error value behind the Err text
ResOk(r)       == [kind |-> "Ok", ids |-> r.ids, consts |-> r.consts, err |-> None, text |-> None]
ResErr(e, inp) == [kind |-> "Err", ids |-> None, consts |-> None, err |-> Some(e),
                   text |-> Some(format_error(e, inp))]
ResPanic       == [kind |-> "Panic", ids |-> None, consts |-> None, err |-> None, text |-> None]

(***************************************************************************)
(* Lines analysed                                                          *)
(***************************************************************************)
\* Lines are put together from pieces (each a sequence of chars).
RECURSIVE Cat(_)
Cat(ps) == IF ps = <<>> THEN <<>> ELSE Head(ps) \o Cat(Tail(ps))

MaxIdx == 2        \* most indices in a generated index list
MaxTerms == 2      \* most terms in a generated right-hand side

NameA == <<"A">>
NameLowerA == <<"a">>
NameB1 == <<"B", "1">>
Seven == <<"7">>
Assign == <<":", "=">>

Targets == {NameLowerA}
IdxAtoms == {NameA, NameB1, Seven}
TermAtoms == {NameA, NameB1, Seven}

\* lists of k atoms with a separator between neighbours
RECURSIVE Lists(_, _, _)
Lists(Atoms, Seps, k) ==
    IF k = 1 THEN {<<a>> : a \in Atoms}
    ELSE {l \o <<s, a>> : l \in Lists(Atoms, Seps, k - 1), s \in Seps, a \in Atoms}

IdxParts ==
    {<<>>} \cup {<<<<"[">>>> \o l \o <<<<"]">>>> :
                    l \in UNION {Lists(IdxAtoms, {<<",">>}, k) : k \in 1..MaxIdx}}
RightParts == UNION {Lists(TermAtoms, {<<"+">>}, k) : k \in 1..MaxTerms}

\* every statement of the grammar over the atoms (some assign the array to itself)
Statements ==
    {<<t>> \o i \o <<Assign>> \o r \o <<<<";">>>> :
        t \in Targets, i \in IdxParts, r \in RightParts}

\* one statement of each shape, to be damaged by one edit
RECURSIVE Alt(_, _, _, _)
Alt(a, b, sep, k) ==
    IF k = 1 THEN <<a>> ELSE Alt(a, b, sep, k - 1) \o <<sep, IF k % 2 = 0 THEN b ELSE a>>
Shape(ni, nt) ==
    <<NameA>> \o (IF ni = 0 THEN <<>>
                  ELSE <<<<"[">>>> \o Alt(NameB1, Seven, <<",">>, ni) \o <<<<"]">>>>)
    \o <<Assign>> \o Alt(NameB1, Seven, <<"#">>, nt) \o <<<<";">>>>
Shapes == {Shape(ni, nt) : ni \in 0..MaxIdx, nt \in 1..MaxTerms}

EditPieces == {NameA, Seven, <<"[">>, <<"]">>, <<",">>, Assign, <<"+">>, <<";">>,
               <<" ">>, <<"?">>, <<":">>, <<"0">>}

Edits(s) ==
    {s}
    \cup {SubSeq(s, 1, i - 1) \o SubSeq(s, i + 1, Len(s)) : i \in 1..Len(s)}
    \cup {SubSeq(s, 1, i - 1) \o <<e>> \o SubSeq(s, i + 1, Len(s)) :
              i \in 1..Len(s), e \in EditPieces}
    \cup {SubSeq(s, 1, i) \o <<e>> \o SubSeq(s, i + 1, Len(s)) :
              i \in 0..Len(s), e \in EditPieces}

\* identifiers and numbers at and beyond the lexer's limits
Repeat(c, n) == [i \in 1..n |-> c]
LexAtoms ==
    { Repeat("x", MAX_IDENT_LEN), Repeat("x", MAX_IDENT_LEN + 1),
      <<"a">> \o Repeat("9", MAX_IDENT_LEN),
      <<"0">>, <<"0", "0", "7">>, <<"3","2","7","6","7">>, <<"3","2","7","6","8">>,
      <<"2","1","4","7","4","8","3","6","4","7">>, <<"2","1","4","7","4","8","3","6","4","8">>,
      <<"0","0","0","0","0","0","0","0","0","0","1","2">>,
      <<"1", "2", "X">>, <<"0", "X">>, <<"3","2","7","6","8","Z">>, <<"2","1","4","7","4","8","3","6","4","8","x">> }
LexFrames ==
    { <<<<>>, <<Assign, Seven, <<";">>>>>>,
      <<<<NameA, <<"[">>>>, <<<<"]">>, Assign, Seven, <<";">>>>>>,
      <<<<NameA, Assign>>, <<<<";">>>>>>,
      <<<<NameA, <<" ">>, Assign, <<"\t">>>>, <<<<"-">>, NameA, <<";">>>>>>,
      <<<<NameA, <<"[">>, Seven, <<"]">>, Assign, NameA, <<"*">>>>, <<<<";">>>>>>,
      <<<<<<"?">>, <<" ">>>>, <<>>>>,
      <<<<<<"0">>, <<" ">>>>, <<<<";">>>>>>,
      <<<<NameA, <<";">>>>, <<>>>>,
      <<<<NameA, Assign, Seven, <<";">>, NameB1, <<" ">>>>, <<>>>> }
LexLines == {f[1] \o <<a>> \o f[2] : f \in LexFrames, a \in LexAtoms}

\* a statement cut off after any number of pieces, with or without
\* whitespace after the cut
Truncations(s) ==
    {SubSeq(s, 1, i) \o w : i \in 0..(Len(s) - 1), w \in {<<>>, <<<<" ">>, <<"\t">>>>}}

Inputs ==
    {Cat(ps) : ps \in Statements \cup UNION {Edits(s) \cup Truncations(s) : s \in Shapes}
                    \cup LexLines}
    \cup {<<>>, <<" ">>, <<"\n", " ">>}

\* str::to_lowercase, used to build the case variant of a line
to_lowercase_char(c) == IF c \in UpperSet THEN LowerOf[c] ELSE c
to_lowercase(s) == [i \in 1..Len(s) |-> to_lowercase_char(s[i])]

\* the run of whitespace put around lexemes
Gap == <<" ", "\t">>

\* a lexeme starts at offset s of inp: a run of letters and digits, or a
\* symbol (the '=' of ':=' starts none)
LexemeStart(inp, s) ==
    /\ inp[s + 1] \notin WhiteSet
    /\ IF is_ascii_alphanumeric(inp[s + 1])
       THEN s = 0 \/ ~is_ascii_alphanumeric(inp[s])
       ELSE ~(inp[s + 1] = "=" /\ s > 0 /\ inp[s] = ":")

\* inp with Gap put before every lexeme and at the end of the line
RECURSIVE SpacedFrom(_, _)
SpacedFrom(inp, s) ==
    IF s >= Len(inp) THEN Gap
    ELSE (IF LexemeStart(inp, s) THEN Gap ELSE <<>>) \o <<inp[s + 1]>> \o SpacedFrom(inp, s + 1)
Spaced(inp) == SpacedFrom(inp, 0)

\* the nearest char that is not whitespace, left of index i and right of it
\* ("" when there is none)
RECURSIVE LeftChar(_, _)
LeftChar(inp, i) ==
    IF i <= 1 THEN "" ELSE IF inp[i - 1] \in WhiteSet THEN LeftChar(inp, i - 1) ELSE inp[i - 1]
RECURSIVE RightChar(_, _)
RightChar(inp, i) ==
    IF i >= Len(inp) THEN "" ELSE IF inp[i + 1] \in WhiteSet THEN RightChar(inp, i + 1) ELSE inp[i + 1]

\* the whitespace inp[i] separates two lexemes that are both alphanumeric,
\* or a ':' from a '=' (a ':' alone is no token)
Separates(inp, i) ==
    LET l == LeftChar(inp, i)
        r == RightChar(inp, i)
    IN  \/ (l /= "" /\ r /= "" /\ is_ascii_alphanumeric(l) /\ is_ascii_alphanumeric(r))
        \/ (l = ":" /\ r = "=")

\* inp without the whitespace that separates nothing
RECURSIVE SqueezedFrom(_, _)
SqueezedFrom(inp, i) ==
    IF i > Len(inp) THEN <<>>
    ELSE (IF inp[i] \in WhiteSet /\ ~Separates(inp, i) THEN <<>> ELSE <<inp[i]>>)
         \o SqueezedFrom(inp, i + 1)
Squeezed(inp) == SqueezedFrom(inp, 1)

\* the lines the second call is made on
Variants(inp) == {inp, to_lowercase(inp), Spaced(inp), Squeezed(inp)}

(***************************************************************************)
(* analyze_line as a state machine                                         *)
(***************************************************************************)
LexerNew == [pos |-> 0, tokens |-> <<>>]

\* TaaflUIState::default(); a String is a sequence of chars, a fixed text of
\* the program is one element of it
UIDefault ==
    [content |-> <<>>, syntax_output |-> <<>>, _syntax_success |-> FALSE,
     _semantics_output |-> <<>>]

Init ==
    /\ ui = UIDefault
    /\ handler = "none"
    /\ input \in Inputs
    /\ overflow_checks \in BOOLEAN
    /\ lexer = LexerNew
    /\ parser = None
    /\ pc = "tokenize"
    /\ result = None
    /\ first = None

Tokenize_keeps_end ==
    /\ pc = "tokenize"
    /\ LET r == lexer_next_token(input, lexer.pos) IN
       IF ~r.ok
       THEN /\ lexer' = [lexer EXCEPT !.pos = r.pos]
            /\ result' = Some(ResErr(r.err[1], input))
            /\ pc' = "returned"
            /\ UNCHANGED parser
       ELSE IF r.tok.t = "End"
       THEN /\ lexer' = None
            /\ parser' = Some(ParserNew(Append(lexer.tokens, r.tok), input))
            /\ pc' = "parse_left_part"
            /\ UNCHANGED result
       ELSE /\ lexer' = [pos |-> r.pos, tokens |-> Append(lexer.tokens, r.tok)]
            /\ UNCHANGED <<parser, pc, result>>
    /\ UNCHANGED <<input, first, overflow_checks, ui, handler>>

\* one iteration of the loop of Lexer::tokenize; on End, Parser::new
Tokenize ==
    /\ pc = "tokenize"
    /\ LET r == lexer_next_token(input, lexer.pos) IN
       IF ~r.ok
       THEN /\ lexer' = [lexer EXCEPT !.pos = r.pos]
            /\ result' = Some(ResErr(r.err[1], input))
            /\ pc' = "returned"
            /\ UNCHANGED parser
       ELSE IF r.tok.t = "End"
       THEN /\ lexer' = None                       \* tokenize(self) consumed the lexer
            /\ parser' = Some(ParserNew(lexer.tokens, input))
            /\ pc' = "parse_left_part"
            /\ UNCHANGED result
       ELSE /\ lexer' = [pos |-> r.pos, tokens |-> Append(lexer.tokens, r.tok)]
            /\ UNCHANGED <<parser, pc, result>>
    /\ UNCHANGED <<input, first, overflow_checks, ui, handler>>

\* a parser function returned o: `?` sends an Err out of parse() and
\* analyze_line, a panic ends the process, Ok goes on at next_pc
Step(o, next_pc) ==
    /\ parser' = Some(o.p)
    /\ IF o.status = "panic" THEN pc' = "aborted" /\ result' = Some(ResPanic)
       ELSE IF o.status = "err"
       THEN pc' = "returned" /\ result' = Some(ResErr(o.err[1], input))
       ELSE pc' = next_pc /\ UNCHANGED result
    /\ UNCHANGED <<input, lexer, first, overflow_checks, ui, handler>>

ParseLeftPart ==
    /\ pc = "parse_left_part"
    /\ LET h == parse_left_part_head(parser[1]) IN
       Step(h.o, IF h.array THEN "parse_index_list" ELSE "expect_assign")

\* Parser::parse_index_list: parse_index, then the loop test that eats a comma
ParseIndexList ==
    /\ pc = "parse_index_list"
    /\ LET o == parse_index(parser[1]) IN
       IF o.status = "ok" /\ PeekIs(o.p, "Comma")
       THEN Step(POk(parser_next_token(o.p).p), "parse_index_list")
       ELSE Step(o, "expect_rsquare")

ExpectRSquare ==
    /\ pc = "expect_rsquare"
    /\ Step(expect(parser[1], {<<"RSquare", "">>}, "ExpectedRSquare", "ExpectedRSquareAtEnd"),
            "expect_assign")

ExpectAssign ==
    /\ pc = "expect_assign"
    /\ Step(expect(parser[1], {<<"Assign", "">>}, "ExpectedAssign", "ExpectedAssignAtEnd"),
            "parse_right_part")

ParseRightPart_leaves_plus ==
    /\ pc = "parse_right_part"
    /\ LET o == parse_term(parser[1]) IN
       IF o.status = "ok" /\ PeekIs(o.p, "Operation") /\ peek(o.p)[1].op /= "+"
       THEN Step(POk(parser_next_token(o.p).p), "parse_right_part")
       ELSE Step(o, "expect_terminator")

\* Parser::parse_right_part: parse_term, then the loop test that eats an operation
ParseRightPart ==
    /\ pc = "parse_right_part"
    /\ LET o == parse_term(parser[1]) IN
       IF o.status = "ok" /\ PeekIs(o.p, "Operation")
       THEN Step(POk(parser_next_token(o.p).p), "parse_right_part")
       ELSE Step(o, "expect_terminator")

ExpectTerminator ==
    /\ pc = "expect_terminator"
    /\ Step(expect(parser[1], {<<"Semicolon", "">>, <<"Operation", "+">>},
                   "ExpectedSemicolonOrOperation", "ExpectedSemicolonAtEnd"),
            "parse_end")

ParseEnd ==
    /\ pc = "parse_end"
    /\ Step(parse_end(parser[1]), "finish")

\* Parser::finish and the Ok of analyze_line
Finish ==
    /\ pc = "finish"
    /\ \E oa \in Orders(parser[1].ids_array), oi \in Orders(parser[1].ids_index),
          oe \in Orders(parser[1].ids_expr), oci \in Orders(parser[1].const_index),
          oce \in Orders(parser[1].const_expr) :
          result' = Some(ResOk(finish(parser[1], oa, oi, oe, oci, oce)))
    /\ pc' = "returned"
    /\ UNCHANGED <<input, lexer, parser, first, overflow_checks, ui, handler>>

\* the caller calls analyze_line once more, on the same line or a case variant
CallAgain ==
    /\ pc = "returned"
    /\ first = None
    /\ first' = Some([input |-> input, result |-> result[1],
                      tokenized |-> parser /= None,
                      tokens |-> IF parser /= None THEN parser[1].tokens ELSE lexer.tokens])
    /\ input' \in Variants(input)
    /\ lexer' = LexerNew
    /\ parser' = None
    /\ pc' = "tokenize"
    /\ result' = None
    /\ UNCHANGED <<overflow_checks, ui, handler>>

Next ==
    \/ Tokenize
    \/ ParseLeftPart
    \/ ParseIndexList
    \/ ExpectRSquare
    \/ ExpectAssign
    \/ ParseRightPart
    \/ ExpectTerminator
    \/ ParseEnd
    \/ Finish
    \/ CallAgain

Spec == Init /\ [][Next]_vars

(***************************************************************************)
(* The window of ui.rs.  update() handles one message at a time; the arms  *)
(* of Analyze and Semantics call analyze_line, which runs as above from     *)
(* "tokenize" to "returned" before the arm goes on.                         *)
(***************************************************************************)
\* what can be typed into the text field
UIContents ==
    {<<>>, <<" ">>}
    \cup {Cat(ps) : ps \in {Shape(MaxIdx, MaxTerms), Shape(0, 1),
                            <<NameLowerA, <<"[">>, Seven, <<"]">>, Assign, NameA, <<";">>>>,
                            <<NameA, <<"[">>, NameB1, <<",">>>>,
                            <<NameA, Assign, Seven, <<";">>, <<";">>>>,
                            <<NameA, Assign, <<"0">>, <<";">>>>}}

InitUI ==
    /\ ui = UIDefault
    /\ handler = "none"
    /\ input = <<>>
    /\ overflow_checks \in BOOLEAN
    /\ lexer = LexerNew
    /\ parser = None
    /\ pc = "idle"
    /\ result = None
    /\ first = None

\* the call analyze_line(&self.content) made by the arm of message m
CallAnalyzeLine(m) ==
    /\ handler' = m
    /\ input' = ui.content
    /\ lexer' = LexerNew
    /\ parser' = None
    /\ pc' = "tokenize"
    /\ result' = None
    /\ UNCHANGED <<ui, first, overflow_checks>>

TextInputChanged_keeps_flag ==
    /\ pc = "idle"
    /\ \E content \in UIContents :
          ui' = [ui EXCEPT !.content = content, !.syntax_output = <<>>]
    /\ UNCHANGED <<input, lexer, parser, pc, result, first, overflow_checks, handler>>

\* Message::TextInputChanged(content)
TextInputChanged ==
    /\ pc = "idle"
    /\ \E content \in UIContents :
          ui' = [content |-> content, syntax_output |-> <<>>,
                 _semantics_output |-> <<>>, _syntax_success |-> FALSE]
    /\ UNCHANGED <<input, lexer, parser, pc, result, first, overflow_checks, handler>>

\* Message::TextInputClear
TextInputClear ==
    /\ pc = "idle"
    /\ ui' = [content |-> <<>>, syntax_output |-> <<>>,
              _semantics_output |-> <<>>, _syntax_success |-> FALSE]
    /\ UNCHANGED <<input, lexer, parser, pc, result, first, overflow_checks, handler>>

\* Message::TextInputSubmit
TextInputSubmit ==
    /\ pc = "idle"
    /\ ui' = [ui EXCEPT !.syntax_output = ui.content]
    /\ UNCHANGED <<input, lexer, parser, pc, result, first, overflow_checks, handler>>

\* Message::Analyze up to the call of analyze_line, or all of it when the
\* text field is empty
Analyze ==
    /\ pc = "idle"
    /\ IF ui.content /= <<>>
       THEN CallAnalyzeLine("Analyze")
       ELSE /\ ui' = [ui EXCEPT !.syntax_output = <<"EnterSomething">>]
            /\ UNCHANGED <<input, lexer, parser, pc, result, first, overflow_checks, handler>>

AnalyzeReturn_shows_reports ==
    /\ pc = "returned" /\ handler = "Analyze"
    /\ LET r == result[1] IN
       IF r.kind = "Ok"
       THEN IF r.ids /= None /\ r.consts /= None
            THEN ui' = [ui EXCEPT !._syntax_success = TRUE,
                                  !.syntax_output = report_string(r.ids[1], "ids") \o <<"\n">>
                                                    \o report_string(r.consts[1], "consts")]
            ELSE UNCHANGED ui
       ELSE ui' = [ui EXCEPT !.syntax_output = r.text[1].string]
    /\ pc' = "idle"
    /\ handler' = "none"
    /\ UNCHANGED <<input, lexer, parser, result, first, overflow_checks>>

\* Message::Analyze from the return of analyze_line on
AnalyzeReturn ==
    /\ pc = "returned" /\ handler = "Analyze"
    /\ LET r == result[1] IN
       IF r.kind = "Ok"
       THEN IF r.ids /= None /\ r.consts /= None
            THEN ui' = [ui EXCEPT !._syntax_success = TRUE,
                                  !.syntax_output = ui.content \o <<"\n", "BelongsToLanguage">>]
            ELSE UNCHANGED ui
       ELSE ui' = [ui EXCEPT !.syntax_output = r.text[1].string]
    /\ pc' = "idle"
    /\ handler' = "none"
    /\ UNCHANGED <<input, lexer, parser, result, first, overflow_checks>>

\* Message::Semantics up to the call of analyze_line; view() gives the
\* button the message only while _syntax_success is set
Semantics ==
    /\ pc = "idle"
    /\ ui._syntax_success
    /\ CallAnalyzeLine("Semantics")

\* Message::Semantics from the return of analyze_line on
SemanticsReturn ==
    /\ pc = "returned" /\ handler = "Semantics"
    /\ LET r == result[1] IN
       IF r.kind = "Ok" /\ r.ids /= None /\ r.consts /= None
       THEN ui' = [ui EXCEPT !._semantics_output =
                       report_string(r.ids[1], "ids") \o <<"\n">>
                       \o report_string(r.consts[1], "consts")]
       ELSE UNCHANGED ui
    /\ pc' = "idle"
    /\ handler' = "none"
    /\ UNCHANGED <<input, lexer, parser, result, first, overflow_checks>>

NextUI ==
    \/ TextInputChanged
    \/ TextInputClear
    \/ TextInputSubmit
    \/ Analyze
    \/ AnalyzeReturn
    \/ Semantics
    \/ SemanticsReturn
    \/ Tokenize
    \/ ParseLeftPart
    \/ ParseIndexList
    \/ ExpectRSquare
    \/ ExpectAssign
    \/ ParseRightPart
    \/ ExpectTerminator
    \/ ParseEnd
    \/ Finish

SpecUI == InitUI /\ [][NextUI]_vars

(***************************************************************************)
(* The window of main.rs: the same TaaflUIState, driven by dummy_analyze   *)
(***************************************************************************)
Rust1488 == <<"R", "u", "s", "t", "1", "4", "8", "8">>

\* dummy_analyze: Ok for the one line "Rust1488", an error for any other
dummy_analyze(inp) ==
    IF inp = Rust1488
    THEN [kind |-> "Ok",
          identifiers |-> {<<"foo", "bar">>},
          constants |-> {<<228, "baz">>}]
    ELSE [kind |-> "Err", e |-> <<"SemanticError", "Rust1488 expected", 1488>>]

\* format!("{:?}", e) of the only error dummy_analyze returns
DebugError(e) == <<"SemanticError(\"Rust1488 expected\", 1488)">>

\* format!("{:?}\n{:?}", success.constants, success.identifiers); both sets
\* hold one element, so the order of iteration does not show
DebugSuccess(success) ==
    <<"{(228, \"baz\")}", "\n", "{(\"foo\", \"bar\")}">>

\* the texts typed into the field of main.rs
MainContents ==
    {<<>>, Rust1488,
     <<"r", "u", "s", "t", "1", "4", "8", "8">>,
     Rust1488 \o <<" ">>,
     <<" ">> \o Rust1488,
     SubSeq(Rust1488, 1, 7),
     Rust1488 \o <<"8">>,
     <<"R">>,
     Cat(<<NameLowerA, Assign, Seven, <<";">>>>)}

\* main.rs never calls the analyzer: only the window state changes
InitMain ==
    /\ ui = UIDefault
    /\ handler = "none"
    /\ input = <<>>
    /\ overflow_checks \in BOOLEAN
    /\ lexer = LexerNew
    /\ parser = None
    /\ pc = "main"
    /\ result = None
    /\ first = None

\* main.rs, Message::TextInputChanged(content)
MainTextInputChanged ==
    /\ pc = "main"
    /\ \E content \in MainContents :
          ui' = [ui EXCEPT !.content = content, !.syntax_output = <<>>]
    /\ UNCHANGED <<input, lexer, parser, pc, result, first, overflow_checks, handler>>

\* main.rs, Message::TextInputClear
MainTextInputClear ==
    /\ pc = "main"
    /\ ui' = [ui EXCEPT !.content = <<>>]
    /\ UNCHANGED <<input, lexer, parser, pc, result, first, overflow_checks, handler>>

\* main.rs, Message::TextInputSubmit
MainTextInputSubmit ==
    /\ pc = "main"
    /\ ui' = [ui EXCEPT !.syntax_output = ui.content]
    /\ UNCHANGED <<input, lexer, parser, pc, result, first, overflow_checks, handler>>

\* main.rs, Message::Analyze
MainAnalyze ==
    /\ pc = "main"
    /\ LET r == dummy_analyze(ui.content) IN
       IF r.kind = "Ok"
       THEN ui' = [ui EXCEPT
                     !.syntax_output =
                         ui.content \o <<"\n", "This string belongs to the language.">>,
                     !._syntax_success = TRUE]
       ELSE ui' = [ui EXCEPT
                     !.syntax_output = DebugError(r.e),
                     !._syntax_success = FALSE]
    /\ UNCHANGED <<input, lexer, parser, pc, result, first, overflow_checks, handler>>

\* main.rs, Message::Semantics: the button sends it only while _syntax_success
MainSemantics ==
    /\ pc = "main"
    /\ ui._syntax_success
    /\ LET r == dummy_analyze(ui.content) IN
       IF r.kind = "Ok"
       THEN ui' = [ui EXCEPT !._semantics_output = DebugSuccess(r)]
       ELSE UNCHANGED ui
    /\ UNCHANGED <<input, lexer, parser, pc, result, first, overflow_checks, handler>>

NextMain ==
    \/ MainTextInputChanged
    \/ MainTextInputClear
    \/ MainTextInputSubmit
    \/ MainAnalyze
    \/ MainSemantics

SpecMain == InitMain /\ [][NextMain]_vars

(***************************************************************************)
(* The grammar of the statement, read off a token sequence without the     *)
(* parser: identifier ( '[' index (',' index)* ']' )? ':=' term (op term)* ';' *)
(***************************************************************************)
Finished == pc \in {"returned", "aborted"}
Res == result[1]
Tokenized == parser /= None                  \* tokenize() returned Ok
Toks == IF parser /= None THEN parser[1].tokens ELSE lexer.tokens

IsAtom(t) == t.t \in {"Identifier", "Constant"}

\* ts[lo..hi] is atom (sep atom)*
Alternates(ts, lo, hi, sep) ==
    /\ lo <= hi
    /\ (hi - lo) % 2 = 0
    /\ \A i \in lo..hi : IF (i - lo) % 2 = 0 THEN IsAtom(ts[i]) ELSE ts[i].t = sep

\* ts[1..a-1] is a target and ts[a] is ':='
LeftOk(ts, a) ==
    /\ 2 <= a /\ a <= Len(ts)
    /\ ts[a].t = "Assign"
    /\ ts[1].t = "Identifier"
    /\ \/ a = 2
       \/ /\ a >= 5
          /\ ts[2].t = "LSquare"
          /\ ts[a - 1].t = "RSquare"
          /\ Alternates(ts, 3, a - 2, "Comma")

\* ts[1..n] is a statement whose ':=' is ts[a]
DerivableAt(ts, a, n) ==
    /\ n <= Len(ts)
    /\ a + 2 <= n
    /\ LeftOk(ts, a)
    /\ Alternates(ts, a + 1, n - 1, "Operation")
    /\ ts[n].t = "Semicolon"

Bracketed(ts) == Len(ts) >= 2 /\ ts[1].t = "Identifier" /\ ts[2].t = "LSquare"

\* an identifier term in ts[a+1..n] names the bracketed target
SelfRef(ts, a, n) ==
    /\ Bracketed(ts)
    /\ \E i \in (a + 1)..n : ts[i].t = "Identifier" /\ ts[i].id = ts[1].id

ValidUpTo(ts, n) == \E a \in 2..n : DerivableAt(ts, a, n) /\ ~SelfRef(ts, a, n)
Valid(ts) == ValidUpTo(ts, Len(ts))

\* the offset of the first ':=' of ts (Len(ts) + 1 if there is none)
FirstAssign(ts) ==
    IF \E i \in 1..Len(ts) : ts[i].t = "Assign"
    THEN CHOOSE i \in 1..Len(ts) : ts[i].t = "Assign" /\ \A j \in 1..(i - 1) : ts[j].t /= "Assign"
    ELSE Len(ts) + 1

IdsAt(ts, lo, hi) == {ts[i].id : i \in {j \in lo..hi : ts[j].t = "Identifier"}}
ConstsAt(ts, lo, hi) == {ts[i].num : i \in {j \in lo..hi : ts[j].t = "Constant"}}

\* the role sets a statement's positions call for
ExpIdsArray(ts)   == IF Bracketed(ts) THEN {ts[1].id} ELSE {}
ExpIdsIndex(ts)   == IF Bracketed(ts) THEN IdsAt(ts, 3, FirstAssign(ts) - 2) ELSE {}
ExpConstIndex(ts) == IF Bracketed(ts) THEN ConstsAt(ts, 3, FirstAssign(ts) - 2) ELSE {}
ExpIdsExpr(ts)    == IdsAt(ts, FirstAssign(ts) + 1, Len(ts))
                         \cup (IF Bracketed(ts) THEN {} ELSE {ts[1].id})
ExpConstExpr(ts)  == ConstsAt(ts, FirstAssign(ts) + 1, Len(ts))

LinesOf(report, role) == {report[i][1] : i \in {j \in 1..Len(report) : report[j][2] = role}}
NoRepeat(report) == \A i, j \in 1..Len(report) : i /= j => report[i] /= report[j]

(***************************************************************************)
(* Claims                                                                  *)
(***************************************************************************)
\* C1: analyze_line returns Ok exactly when the token sequence of the line is
\* derivable from the grammar and no right-hand identifier term names the
\* bracketed target; on every other line it returns Err.
C1_OkIffDerivable ==
    Finished =>
        /\ (Res.kind = "Ok") <=> (Tokenized /\ Valid(Toks))
        /\ Res.kind \in {"Ok", "Err"}

\* The same on every call that returns: only the abort on the empty line
\* (a build with overflow checks) stands between the code and C1.
OkIffDerivableWhenReturned ==
    pc = "returned" =>
        /\ (Res.kind = "Ok") <=> (Tokenized /\ Valid(Toks))
        /\ Res.kind \in {"Ok", "Err"}

\* C2: after a successful parse the five role sets are the ones the
\* syntactic positions determine, and each report line occurs once.
C2_RoleSetsByPosition ==
    (pc = "returned" /\ Res.kind = "Ok") =>
        LET p == parser[1]
            ts == p.tokens
        IN  /\ p.ids_array = ExpIdsArray(ts)
            /\ p.ids_index = ExpIdsIndex(ts)
            /\ p.const_index = ExpConstIndex(ts)
            /\ p.ids_expr = ExpIdsExpr(ts)
            /\ p.const_expr = ExpConstExpr(ts)
            /\ Res.ids /= None /\ Res.consts /= None
            /\ NoRepeat(Res.ids[1]) /\ NoRepeat(Res.consts[1])
            /\ LinesOf(Res.ids[1], "array") = ExpIdsArray(ts)
            /\ LinesOf(Res.ids[1], "index") = ExpIdsIndex(ts)
            /\ LinesOf(Res.ids[1], "expr") = ExpIdsExpr(ts)
            /\ LinesOf(Res.consts[1], "index") = ExpConstIndex(ts)
            /\ LinesOf(Res.consts[1], "expr") = ExpConstExpr(ts)

\* a bracketed target with two indices and a two-term right-hand side succeeded
C2_Witness ==
    /\ pc = "returned" /\ Res.kind = "Ok"
    /\ parser[1].ids_array /= {} /\ parser[1].ids_index /= {} /\ parser[1].const_index /= {}
    /\ Cardinality(parser[1].ids_expr) = 1 /\ parser[1].const_expr /= {}

\* C3 as stated: a valid line (derivable, and not assigning the array to
\* itself) gives Ok with both reports present and neither of them an empty
\* string.
C3_BothReportsNonEmpty ==
    (Finished /\ Tokenized /\ Valid(Toks)) =>
        /\ Res.kind = "Ok"
        /\ Res.ids /= None /\ Res.consts /= None
        /\ Res.ids[1] /= <<>> /\ Res.consts[1] /= <<>>

\* C3 amended: a valid line gives Ok with both reports present; the
\* identifiers report is never empty, the constants report is empty exactly
\* when the line holds no constant.
C3_ReportsPresent ==
    (Finished /\ Tokenized /\ Valid(Toks)) =>
        /\ Res.kind = "Ok"
        /\ Res.ids /= None /\ Res.consts /= None
        /\ Res.ids[1] /= <<>>
        /\ (Res.consts[1] = <<>>) <=> (ConstsAt(Toks, 1, Len(Toks)) = {})

\* a valid line without a constant was analysed
C3_Witness ==
    /\ pc = "returned" /\ Tokenized /\ Valid(Toks)
    /\ ConstsAt(Toks, 1, Len(Toks)) = {}
    /\ Res.consts = Some(<<>>)

\* where identifier x / constant c occurs in the statement ts
IdOccursAs(ts, x, role) ==
    CASE role = "array" -> Bracketed(ts) /\ ts[1].id = x
      [] role = "index" -> Bracketed(ts) /\ x \in IdsAt(ts, 3, FirstAssign(ts) - 2)
      [] role = "expr"  -> \/ x \in IdsAt(ts, FirstAssign(ts) + 1, Len(ts))
                           \/ (~Bracketed(ts) /\ ts[1].id = x)
ConstOccursAs(ts, c, role) ==
    CASE role = "index" -> c \in ConstsAt(ts, 3, FirstAssign(ts) - 2)
      [] role = "expr"  -> c \in ConstsAt(ts, FirstAssign(ts) + 1, Len(ts))
IdRoleSet(p, role) ==
    CASE role = "array" -> p.ids_array [] role = "index" -> p.ids_index [] role = "expr" -> p.ids_expr
ConstRoleSet(p, role) ==
    CASE role = "index" -> p.const_index [] role = "expr" -> p.const_expr
IdRoles == {"array", "index", "expr"}
ConstRoles == {"index", "expr"}

\* C4 as stated: on a valid line (derivable, and not assigning the array to
\* itself) every identifier and every constant is in exactly one role
\* category, the one of its syntactic position.
C4_ExactlyOneRole ==
    (pc = "returned" /\ Tokenized /\ Valid(Toks)) =>
        LET p == parser[1]
            ts == p.tokens
        IN  /\ \A x \in IdsAt(ts, 1, Len(ts)) :
                   /\ Cardinality({r \in IdRoles : x \in IdRoleSet(p, r)}) = 1
                   /\ \A r \in IdRoles : IdOccursAs(ts, x, r) => x \in IdRoleSet(p, r)
            /\ \A c \in ConstsAt(ts, 1, Len(ts)) :
                   /\ Cardinality({r \in ConstRoles : c \in ConstRoleSet(p, r)}) = 1
                   /\ \A r \in ConstRoles : ConstOccursAs(ts, c, r) => c \in ConstRoleSet(p, r)

\* C4 amended: on a valid line every identifier and every constant is in the
\* role category of each syntactic position it occurs at and in no other
\* (so in exactly one when it occurs in one kind of position only), and the
\* categories hold nothing that is not in the line.
C4_RolePerPosition ==
    (pc = "returned" /\ Tokenized /\ Valid(Toks)) =>
        LET p == parser[1]
            ts == p.tokens
        IN  /\ \A x \in IdsAt(ts, 1, Len(ts)) :
                   /\ \E r \in IdRoles : x \in IdRoleSet(p, r)
                   /\ \A r \in IdRoles : x \in IdRoleSet(p, r) <=> IdOccursAs(ts, x, r)
            /\ \A c \in ConstsAt(ts, 1, Len(ts)) :
                   /\ \E r \in ConstRoles : c \in ConstRoleSet(p, r)
                   /\ \A r \in ConstRoles : c \in ConstRoleSet(p, r) <=> ConstOccursAs(ts, c, r)
            /\ (p.ids_array \cup p.ids_index \cup p.ids_expr) \subseteq IdsAt(ts, 1, Len(ts))
            /\ (p.const_index \cup p.const_expr) \subseteq ConstsAt(ts, 1, Len(ts))

\* a valid line with one identifier and one constant both as index and as term
C4_Witness ==
    /\ pc = "returned" /\ Tokenized /\ Valid(Toks)
    /\ parser[1].ids_index \cap parser[1].ids_expr /= {}
    /\ parser[1].const_index \cap parser[1].const_expr /= {}

(***************************************************************************)
(* Lexer-level faults, read off the characters of a line without the lexer *)
(***************************************************************************)
\* a maximal run of letters and digits starts at offset s
RunStart(inp, s) ==
    /\ s < Len(inp)
    /\ is_ascii_alphanumeric(inp[s + 1])
    /\ (s = 0 \/ ~is_ascii_alphanumeric(inp[s]))

RECURSIVE StripZeros(_)
StripZeros(d) == IF d /= <<>> /\ Head(d) = "0" THEN StripZeros(Tail(d)) ELSE d

RECURSIVE SmallValue(_)      \* the value of at most nine digits
SmallValue(d) == IF d = <<>> THEN 0 ELSE SmallValue(SubSeq(d, 1, Len(d) - 1)) * 10 + ValueOf[d[Len(d)]]

\* the digit string d denotes a value outside [1, 32767]
OutOfRange(d) ==
    LET z == StripZeros(d) IN z = <<>> \/ Len(z) > 5 \/ SmallValue(z) > MAX_CONST

\* the digit string d denotes a value above i32::MAX
AboveI32(d) ==
    LET z == StripZeros(d) IN
    \/ Len(z) > 10
    \/ /\ Len(z) = 10
       /\ \/ SmallValue(SubSeq(z, 1, 9)) > I32_MAX \div 10
          \/ /\ SmallValue(SubSeq(z, 1, 9)) = I32_MAX \div 10
             /\ ValueOf[z[10]] > I32_MAX % 10

\* the digit run that starts at offset s
DigitsAt(inp, s) == SubSeq(inp, s + 1, ScanDigits(inp, s))

\* what is wrong with the lexeme that starts at offset s, if anything
Fault(inp, s) ==
    LET c == inp[s + 1] IN
    IF RunStart(inp, s)
    THEN IF is_ascii_alphabetic(c)
         THEN IF ScanAlnum(inp, s) - s > MAX_IDENT_LEN THEN "long_identifier" ELSE "none"
         ELSE IF ScanDigits(inp, s) < ScanAlnum(inp, s) THEN "digit_led"
         ELSE IF OutOfRange(DigitsAt(inp, s)) THEN "out_of_range"
         ELSE "none"
    ELSE IF is_ascii_alphanumeric(c) \/ is_whitespace(c) THEN "none"
    ELSE IF c = ":" THEN (IF peek_char(inp, s + 1) = Some("=") THEN "none" ELSE "colon")
    ELSE IF c \in {"[", "]", ",", ";"} \cup Operations THEN "none"
    ELSE "invalid_char"

\* nothing is wrong to the left of offset s
CleanBefore(inp, s) == \A k \in 0..(s - 1) : Fault(inp, k) = "none"

IsErr(r, kind, pos) == r.kind = "Err" /\ r.err[1].kind = kind /\ r.err[1].pos = pos

\* the right-hand identifier terms of ts that name its target
RhsOccurrences(ts) ==
    {i \in (FirstAssign(ts) + 1)..Len(ts) : ts[i].t = "Identifier" /\ ts[i].id = ts[1].id}
Min(S) == CHOOSE x \in S : \A y \in S : x <= y

\* C5 as stated: whenever the left-hand side is A[...] and A is a term of the
\* right-hand side, the result is a semantic error at that occurrence of A.
C5_SelfAssignAlwaysSemantic ==
    (Finished /\ Bracketed(Toks) /\ RhsOccurrences(Toks) /= {}) =>
        \E i \in RhsOccurrences(Toks) : IsErr(Res, "Semantic", Toks[i].pos)

\* C5 amended: when the line tokenizes, its left-hand side is a well-formed
\* A[index list] followed by ':=', and the right-hand side up to the first
\* term naming A is a well-formed chain of terms and operations, the result
\* is the semantic error "array on the right side" at the offset of that
\* first occurrence.
C5_SelfAssignSemantic ==
    (Finished /\ Tokenized /\ Bracketed(Toks) /\ RhsOccurrences(Toks) /= {}
       /\ LeftOk(Toks, FirstAssign(Toks))
       /\ LET a == FirstAssign(Toks)
              i == Min(RhsOccurrences(Toks))
          IN  i = a + 1 \/ (Alternates(Toks, a + 1, i - 2, "Operation") /\ Toks[i - 1].t = "Operation"))
    => /\ IsErr(Res, "Semantic", Toks[Min(RhsOccurrences(Toks))].pos)
       /\ Res.err[1].msg = "ArrayOnRightSide"
       /\ Res.text[1].spaces = Toks[Min(RhsOccurrences(Toks))].pos

\* a lower-case array name met again in upper case as the second term
C5_Witness ==
    /\ pc = "returned" /\ Tokenized /\ Bracketed(Toks) /\ RhsOccurrences(Toks) /= {}
    /\ Min(RhsOccurrences(Toks)) = FirstAssign(Toks) + 3
    /\ input[1] = "a"
    /\ Res.kind = "Err" /\ Res.err[1].msg = "ArrayOnRightSide"

\* offsets at which an identifier longer than 8 characters starts
LongIdentStarts(inp) == {s \in 0..(Len(inp) - 1) : Fault(inp, s) = "long_identifier"}

\* C6 as stated: a line that holds an identifier longer than 8 characters
\* gives a semantic error at the first byte of that identifier.
C6_LongIdentAlwaysSemantic ==
    (Finished /\ LongIdentStarts(input) /= {}) =>
        \E s \in LongIdentStarts(input) : IsErr(Res, "Semantic", s)

\* C6 amended: an identifier longer than 8 characters with no lexer-level
\* fault to its left gives the semantic error "identifier too long" at its
\* first byte.
C6_LongIdentSemantic ==
    \A s \in 0..(Len(input) - 1) :
        (Finished /\ Fault(input, s) = "long_identifier" /\ CleanBefore(input, s)) =>
            /\ IsErr(Res, "Semantic", s)
            /\ Res.err[1].msg = "IdentTooLong"

\* a nine-letter identifier after the ':=' was rejected
C6_Witness ==
    /\ pc = "returned"
    /\ \E s \in 1..(Len(input) - 1) :
          Fault(input, s) = "long_identifier" /\ CleanBefore(input, s)
          /\ ScanAlnum(input, s) - s = MAX_IDENT_LEN + 1
    /\ Res.kind = "Err"

\* C7: a numeric literal whose value is outside [1, 32767] (0, above 32767,
\* above i32::MAX) gives an error of kind semantic at its first digit.  The
\* literal is taken where the claim is safest: nothing wrong to its left and
\* no letter right after it.
C7_OutOfRangeIsSemantic ==
    \A s \in 0..(Len(input) - 1) :
        (Finished /\ Fault(input, s) = "out_of_range" /\ CleanBefore(input, s)) =>
            IsErr(Res, "Semantic", s)

\* The part of C7 the code keeps: literals out of range that fit an i32.
OutOfRangeWithinI32IsSemantic ==
    \A s \in 0..(Len(input) - 1) :
        (Finished /\ Fault(input, s) = "out_of_range" /\ CleanBefore(input, s)
            /\ ~AboveI32(DigitsAt(input, s))) =>
            IsErr(Res, "Semantic", s)

SameCase(a, b) == to_uppercase(a) = to_uppercase(b)
Roles == {"array", "index", "expr"}

\* C8: two lines that differ only in the case of letters give the same
\* outcome kind, the same error kind and offset, and the same role sets;
\* every identifier reported is in one canonical case.
C8_CaseInsensitive ==
    (Finished /\ first /= None /\ SameCase(first[1].input, input)) =>
        LET r1 == first[1].result
            r2 == Res
        IN  /\ r1.kind = r2.kind
            /\ r1.kind = "Err" => /\ r1.err[1].kind = r2.err[1].kind
                                  /\ r1.err[1].pos = r2.err[1].pos
                                  /\ r1.text[1].spaces = r2.text[1].spaces
            /\ r1.kind = "Ok" =>
                  /\ r1.ids /= None /\ r2.ids /= None /\ r1.consts /= None /\ r2.consts /= None
                  /\ \A role \in Roles :
                        /\ LinesOf(r1.ids[1], role) = LinesOf(r2.ids[1], role)
                        /\ LinesOf(r1.consts[1], role) = LinesOf(r2.consts[1], role)
                        /\ \A x \in LinesOf(r2.ids[1], role) : x = to_uppercase(x)

\* a line with the array name in lower case on the left and in upper case
\* on the right, then the all-lower-case variant of it
C8_Witness ==
    /\ pc = "returned" /\ first /= None
    /\ first[1].input /= input /\ SameCase(first[1].input, input)
    /\ first[1].input[1] = "a"
    /\ "A" \in Range(first[1].input)
    /\ Res.kind = "Err" /\ Res.err[1].msg = "ArrayOnRightSide"

\* C9: a second call on the same line returns exactly what the first
\* returned: the same Ok/Err, error text and report strings, line order
\* included.
C9_Idempotent ==
    (Finished /\ first /= None /\ first[1].input = input) => Res = first[1].result

\* What the two calls do share: everything but the order of the lines.
SameUpToLineOrder ==
    (Finished /\ first /= None /\ first[1].input = input) =>
        LET r1 == first[1].result
            r2 == Res
        IN  /\ r1.kind = r2.kind /\ r1.err = r2.err /\ r1.text = r2.text
            /\ r1.kind = "Ok" =>
                  /\ Range(r1.ids[1]) = Range(r2.ids[1]) /\ Len(r1.ids[1]) = Len(r2.ids[1])
                  /\ Range(r1.consts[1]) = Range(r2.consts[1])
                  /\ Len(r1.consts[1]) = Len(r2.consts[1])

Semicolons(ts) == {i \in 1..Len(ts) : ts[i].t = "Semicolon"}

\* C10: a line that succeeds ends in ';' and holds exactly one ';'; when the
\* token sequence tokenize returns goes on after the terminator of a
\* statement, the result is a syntax error at the offset of the first such
\* token.  (A line on which tokenize fails has no token sequence: on
\* "A:=7;B1 0" the lexer's error at the 0 is what is returned.)
C10_TerminatorLast ==
    /\ (pc = "returned" /\ Res.kind = "Ok") =>
          /\ Semicolons(Toks) = {Len(Toks)}
          /\ Cardinality({i \in 1..Len(input) : input[i] = ";"}) = 1
    /\ \A k \in 1..(Len(Toks) - 1) :
          (Finished /\ Tokenized /\ ValidUpTo(Toks, k)) =>
              /\ IsErr(Res, "Syntax", Toks[k + 1].pos)
              /\ Res.err[1].msg = "NothingAfterSemicolon"

\* a statement followed by one more token was rejected
C10_Witness ==
    /\ pc = "returned" /\ Tokenized
    /\ \E k \in 1..(Len(Toks) - 1) : ValidUpTo(Toks, k)
    /\ Res.kind = "Err"

(***************************************************************************)
(* Outcomes of a call                                                      *)
(***************************************************************************)
ErrorKinds == {"Lexical", "Syntax", "Semantic"}

\* C11: on every line, the empty and the all-whitespace ones included,
\* analyze_line returns Ok or an Err of one of the three kinds and never
\* aborts the process; the position input_str.len() - 1 computed when the
\* tokens are used up never underflows.
C11_NeverAborts ==
    /\ pc /= "aborted"
    /\ Finished => /\ Res.kind \in {"Ok", "Err"}
                   /\ Res.kind = "Err" => Res.err[1].kind \in ErrorKinds /\ Res.text /= None
    /\ parser /= None => parser[1].current_pos >= 0

\* unsigned minimum of an offset and a length (the offset may have wrapped)
ClampTo(pos, n) == IF pos < 0 \/ pos > n THEN n ELSE pos

\* C12: the text returned on a failure is the line as given, a newline,
\* min(offset, length of the line) spaces and one caret, a newline, the
\* prefix of the error's category and the description; an offset beyond the
\* length of the line is clamped to it.
C12_ErrorTextLayout ==
    (pc = "returned" /\ Res.kind = "Err") =>
        LET e == Res.err[1]
            t == Res.text[1].string
            n == Len(input)
            k == ClampTo(e.pos, n)
        IN  /\ Res.text[1].spaces = k
            /\ Len(t) >= n + k + 5
            /\ SubSeq(t, 1, n) = input
            /\ t[n + 1] = "\n"
            /\ \A i \in 1..k : t[n + 1 + i] = " "
            /\ t[n + k + 2] = "^"
            /\ t[n + k + 3] = "\n"
            /\ t[n + k + 4] = (CASE e.kind = "Lexical"  -> "Lexical error: "
                                 [] e.kind = "Syntax"   -> "Syntax error: "
                                 [] e.kind = "Semantic" -> "Semantic error: ")
            /\ SubSeq(t, n + k + 5, Len(t)) = <<e.msg>> \o e.arg

\* an error whose offset lies beyond the line was formatted (the wrapped
\* len() - 1 of the empty line in a build without overflow checks)
C12_Witness ==
    /\ pc = "returned" /\ Res.kind = "Err"
    /\ usize_gt(Res.err[1].pos, Len(input))
    /\ Res.text[1].spaces = Len(input)


(***************************************************************************)
(* What the grammar expects after each token, read off a token sequence    *)
(* without the parser                                                      *)
(***************************************************************************)
\* what may follow ts[1..k]: "identifier" (the target), "lsquare_or_assign",
\* "index", "comma_or_rsquare", "assign", "term", "op_or_semicolon", "end"
\* (nothing), or "dead" when ts[1..k] already violates the grammar or
\* assigns the array to itself
RECURSIVE Expects(_, _)
Expects(ts, k) ==
    IF k = 0 THEN "identifier"
    ELSE LET q == Expects(ts, k - 1)
             t == ts[k]
         IN  CASE q = "identifier" ->
                    IF t.t = "Identifier" THEN "lsquare_or_assign" ELSE "dead"
               [] q = "lsquare_or_assign" ->
                    IF t.t = "LSquare" THEN "index"
                    ELSE IF t.t = "Assign" THEN "term" ELSE "dead"
               [] q = "index" ->
                    IF IsAtom(t) THEN "comma_or_rsquare" ELSE "dead"
               [] q = "comma_or_rsquare" ->
                    IF t.t = "Comma" THEN "index"
                    ELSE IF t.t = "RSquare" THEN "assign" ELSE "dead"
               [] q = "assign" ->
                    IF t.t = "Assign" THEN "term" ELSE "dead"
               [] q = "term" ->
                    IF IsAtom(t) /\ ~(Bracketed(ts) /\ t.t = "Identifier" /\ t.id = ts[1].id)
                    THEN "op_or_semicolon" ELSE "dead"
               [] q = "op_or_semicolon" ->
                    IF t.t = "Operation" THEN "term"
                    ELSE IF t.t = "Semicolon" THEN "end" ELSE "dead"
               [] q \in {"end", "dead"} -> "dead"

\* the tokens at which ts stops being the beginning of a valid statement
Violations(ts) == {k \in 1..Len(ts) : Expects(ts, k) = "dead"}

\* ts is the beginning of a valid statement, but not a whole one: the
\* tokens are used up where one more is required
Exhausted(ts) == Expects(ts, Len(ts)) \notin {"end", "dead"}

\* the message for a token that is not what was expected
MsgAtToken(ts, k) ==
    LET q == Expects(ts, k - 1) IN
    CASE q = "identifier" -> "ExpectedIdentifier"
      [] q \in {"lsquare_or_assign", "assign"} -> "ExpectedAssign"
      [] q = "index" -> "ExpectedIndex"
      [] q = "comma_or_rsquare" -> "ExpectedRSquare"
      [] q = "term" -> IF IsAtom(ts[k]) THEN "ArrayOnRightSide" ELSE "ExpectedTerm"
      [] q = "op_or_semicolon" -> "ExpectedSemicolonOrOperation"
      [] q = "end" -> "NothingAfterSemicolon"

\* the message for tokens used up
MsgAtEnd(ts) ==
    LET q == Expects(ts, Len(ts)) IN
    CASE q = "identifier" -> "ExpectedIdentifier"
      [] q \in {"lsquare_or_assign", "assign"} -> "ExpectedAssignAtEnd"
      [] q = "index" -> "ExpectedIndexAtEnd"
      [] q = "comma_or_rsquare" -> "ExpectedRSquareAtEnd"
      [] q = "term" -> "ExpectedTerm"
      [] q = "op_or_semicolon" -> "ExpectedSemicolonAtEnd"

\* ts is target ':=' expression '+', the '+' being the last token
PlusTerminated(ts) ==
    /\ Len(ts) >= 4
    /\ Expects(ts, Len(ts) - 1) = "op_or_semicolon"
    /\ ts[Len(ts)].t = "Operation" /\ ts[Len(ts)].op = "+"

\* C13 as stated, taken at each line of the shape: a line whose tokens are
\* target ':=' expression '+' (a '+' where the ';' belongs, as the last
\* token) is tolerated, analyze_line returns Ok on it.
C13_StrayPlusTolerated ==
    (Finished /\ Tokenized /\ PlusTerminated(Toks)) => Res.kind = "Ok"

\* C13 amended: no line of that shape is accepted.  The right-hand side
\* takes the '+' as an operation and asks for the term after it, so the
\* result is the syntax error "expected a term" at the last byte of the
\* line; the '+' of the terminator rule is never what ends a statement.
C13_StrayPlusRejected ==
    /\ (Finished /\ Tokenized /\ PlusTerminated(Toks)) =>
          /\ IsErr(Res, "Syntax", Len(input) - 1)
          /\ Res.err[1].msg = "ExpectedTerm"
    /\ (pc = "returned" /\ Res.kind = "Ok") => Toks[Len(Toks)].t = "Semicolon"

\* a line ending in '+' after a two-term right-hand side was rejected
C13_Witness ==
    /\ pc = "returned" /\ Tokenized /\ PlusTerminated(Toks)
    /\ Cardinality({i \in 1..Len(Toks) : Toks[i].t = "Operation"}) = 2
    /\ Res.kind = "Err"


\* C14 as stated: when the tokens are used up where one more is required,
\* the result is a syntax error at the offset of the last token consumed,
\* whatever is missing and whatever whitespace ends the line.
C14_AtLastTokenConsumed ==
    (Finished /\ Tokenized /\ Exhausted(Toks) /\ Toks /= <<>>) =>
        IsErr(Res, "Syntax", Toks[Len(Toks)].pos)

\* C14 amended: when the tokens are used up where one more is required, the
\* result is a syntax error naming what is missing.  A missing index is
\* reported at the offset of the last token consumed (the '[' or the ',');
\* everything else (identifier, ':=', ']', term, ';') is reported at the
\* last byte of the line, len() - 1, trailing whitespace included.  The
\* empty line has no last byte: there len() - 1 underflows, the call aborts
\* in a build with overflow checks, and otherwise the wrapped offset is
\* reported and the caret is clamped to column 0.
C14_AtEndOfLine ==
    (Finished /\ Tokenized /\ Exhausted(Toks)) =>
        IF input = <<>> /\ overflow_checks THEN Res.kind = "Panic"
        ELSE /\ IsErr(Res, "Syntax",
                      IF Expects(Toks, Len(Toks)) = "index"
                      THEN Toks[Len(Toks)].pos ELSE Len(input) - 1)
             /\ Res.err[1].msg = MsgAtEnd(Toks)
             /\ Res.text[1].spaces = ClampTo(Res.err[1].pos, Len(input))

\* a line that stops after its right-hand side and some whitespace, with a
\* last token of more than one byte, was reported at the whitespace
C14_Witness ==
    /\ pc = "returned" /\ Tokenized /\ Exhausted(Toks) /\ Toks /= <<>>
    /\ Expects(Toks, Len(Toks)) = "op_or_semicolon"
    /\ is_whitespace(input[Len(input)])
    /\ Res.kind = "Err" /\ Res.err[1].pos = Len(input) - 1
    /\ Res.err[1].pos > Toks[Len(Toks)].pos + 1

\* a line that stops where an index is required was reported at the '['
C14_IndexWitness ==
    /\ pc = "returned" /\ Tokenized /\ Expects(Toks, Len(Toks)) = "index"
    /\ Res.kind = "Err" /\ Res.err[1].pos = Toks[Len(Toks)].pos


\* C15: a digit run at which the lexer starts a token and which is followed
\* at once by an ASCII letter makes the lexer fail with the syntax error
\* "an identifier cannot start with a digit" at the first digit of the run,
\* whatever the run's value: in range, 0, above 32767 or above i32::MAX.
\* (The lexer starts a token at the run when everything to the left of it
\* tokenizes; the digits inside an identifier such as B1X start no token.)
C15_DigitLedIsSyntax ==
    Finished =>
        \A s \in 0..(Len(input) - 1) :
            (Fault(input, s) = "digit_led" /\ CleanBefore(input, s)) =>
                /\ IsErr(Res, "Syntax", s)
                /\ Res.err[1].msg = "IdentStartsWithDigit"
                /\ Res.text[1].spaces = s
                /\ parser = None

\* a digit run too large for an i32 and followed by a letter was rejected
\* as a digit-led identifier
C15_Witness ==
    /\ pc = "returned" /\ Res.kind = "Err" /\ Res.err[1].msg = "IdentStartsWithDigit"
    /\ \E s \in 1..(Len(input) - 1) :
          /\ Fault(input, s) = "digit_led" /\ CleanBefore(input, s)
          /\ AboveI32(DigitsAt(input, s))

\* the message of the lexer for what is wrong at offset s
FaultMsg(inp, s) ==
    LET f == Fault(inp, s) IN
    CASE f = "invalid_char" -> "InvalidChar"
      [] f = "colon" -> "ExpectedEqAfterColon"
      [] f = "digit_led" -> "IdentStartsWithDigit"
      [] f = "long_identifier" -> "IdentTooLong"
      [] f = "out_of_range" ->
            IF AboveI32(DigitsAt(inp, s)) THEN "CannotParseNumber" ELSE "ConstOutOfRange"

Faults(inp) == {s \in 0..(Len(inp) - 1) : Fault(inp, s) /= "none"}

\* C16: analysis has two phases and stops at the first error.  When some
\* lexeme of the line does not tokenize (invalid character, ':' without
\* '=', digit-led identifier, identifier too long, constant out of range),
\* the error of the leftmost such lexeme is returned and the parser never
\* runs, whatever the tokens to its left look like.  The parser runs only
\* when the whole line tokenizes, and the error it returns is the one of the
\* first token that cannot continue a statement (or of the tokens being
\* used up).
C16_TwoPhaseFailFast ==
    Finished =>
        /\ Faults(input) /= {} =>
              LET s == Min(Faults(input)) IN
              /\ Res.kind = "Err" /\ Res.err[1].pos = s
              /\ Res.err[1].msg = FaultMsg(input, s)
              /\ parser = None
        /\ Faults(input) = {} => Tokenized
        /\ (Tokenized /\ Res.kind = "Err") =>
              /\ Faults(input) = {}
              /\ IF Violations(Toks) /= {}
                 THEN LET k == Min(Violations(Toks)) IN
                      /\ Res.err[1].pos = Toks[k].pos
                      /\ Res.err[1].msg = MsgAtToken(Toks, k)
                      /\ Res.err[1].kind =
                            (IF MsgAtToken(Toks, k) = "ArrayOnRightSide"
                             THEN "Semantic" ELSE "Syntax")
                 ELSE /\ Exhausted(Toks)
                      /\ Res.err[1].msg = MsgAtEnd(Toks)
                      /\ Res.err[1].kind = "Syntax"

\* the lexer's error was returned for a line whose tokens to the left of
\* that error already went on after a complete statement
C16_Witness ==
    /\ pc = "returned" /\ ~Tokenized /\ Res.kind = "Err"
    /\ Violations(lexer.tokens) /= {}
    /\ Res.err[1].pos > lexer.tokens[Len(lexer.tokens)].pos


\* a call in which parse_left_part has taken the target identifier
AfterLeftPart ==
    \/ pc \in {"parse_index_list", "expect_rsquare", "expect_assign", "parse_right_part",
               "expect_terminator", "parse_end", "finish"}
    \/ (pc = "returned" /\ Tokenized /\ Violations(Toks) \cap {1} = {} /\ Toks /= <<>>)

\* C18: the two reports of an Ok are both present or both absent, and both
\* absent does not happen: from the return of parse_left_part on, the target
\* identifier is in ids_array or in ids_expr, so finish finds a non-empty set.
C18_ReportsTogether ==
    /\ (Finished /\ Res.kind = "Ok") =>
          /\ (Res.ids = None) <=> (Res.consts = None)
          /\ Res.ids /= None
    /\ AfterLeftPart =>
          /\ parser[1].tokens[1].t = "Identifier"
          /\ parser[1].tokens[1].id \in parser[1].ids_array \cup parser[1].ids_expr

\* a line whose only identifier or constant is the target succeeded
C18_Witness ==
    /\ pc = "returned" /\ Res.kind = "Ok"
    /\ parser[1].ids_array \cup parser[1].ids_index \cup parser[1].ids_expr
          = {parser[1].tokens[1].id}
    /\ parser[1].const_index \cup parser[1].const_expr = {}
    /\ Res.ids /= None /\ Res.consts /= None

\* C20: on a line that is not empty, the offset of every error of the lexer
\* and of the parser is an index of a byte of the line, so the caret is not
\* clamped and stands under a byte of the echoed line.
C20_OffsetInsideLine ==
    (pc = "returned" /\ Res.kind = "Err" /\ input /= <<>>) =>
        LET pos == Res.err[1].pos IN
        /\ 0 <= pos /\ pos < Len(input)
        /\ Res.text[1].spaces = pos
        /\ Res.text[1].string[Len(input) + 1 + pos + 1] = "^"

\* the parser ran out of tokens on a line that ends in whitespace and
\* reported the last byte of the line
C20_Witness ==
    /\ pc = "returned" /\ Res.kind = "Err" /\ Tokenized /\ Exhausted(Toks)
    /\ Len(input) > 1 /\ is_whitespace(input[Len(input)])
    /\ Res.err[1].pos = Len(input) - 1


\* a token sequence without the offsets
Unplaced(ts) == [i \in 1..Len(ts) |-> [t |-> ts[i].t, id |-> ts[i].id, num |-> ts[i].num, op |-> ts[i].op]]

\* a holds a token, or at least something the lexer takes for the start of one
HasLexeme(a) == \E i \in 1..Len(a) : a[i] \notin WhiteSet

\* b is a with whitespace put around the lexemes, or a without the
\* whitespace that separates nothing
WhitespaceVariant(a, b) == HasLexeme(a) /\ (b = Spaced(a) \/ b = Squeezed(a))

\* C17: whitespace around tokens does not matter.  A line and the same line
\* with a run of whitespace before and after every token, or without the
\* whitespace between tokens that are not both alphanumeric, give the same
\* tokens (offsets aside), the same Ok/Err, the same error kind and message
\* and the same role sets; a statement without any whitespace is accepted.
\* (The claim is about the whitespace around the tokens of a line; a line
\* of whitespace only has no token to put whitespace around.)
C17_WhitespaceInsignificant ==
    (Finished /\ first /= None /\ WhitespaceVariant(first[1].input, input)) =>
        LET r1 == first[1].result
            r2 == Res
        IN  /\ first[1].tokenized = Tokenized
            /\ Unplaced(first[1].tokens) = Unplaced(Toks)
            /\ r1.kind = r2.kind
            /\ r1.kind = "Err" => /\ r1.err[1].kind = r2.err[1].kind
                                  /\ r1.err[1].msg = r2.err[1].msg
                                  /\ r1.err[1].arg = r2.err[1].arg
            /\ r1.kind = "Ok" =>
                  \A role \in Roles :
                      /\ LinesOf(r1.ids[1], role) = LinesOf(r2.ids[1], role)
                      /\ LinesOf(r1.consts[1], role) = LinesOf(r2.consts[1], role)

\* a statement with whitespace inside it succeeded, and so did the same
\* statement without any whitespace
C17_Witness ==
    /\ pc = "returned" /\ first /= None
    /\ input = Squeezed(first[1].input) /\ input /= first[1].input
    /\ \A i \in 1..Len(input) : input[i] \notin WhiteSet
    /\ Len(Toks) >= 9
    /\ first[1].result.kind = "Ok" /\ Res.kind = "Ok"

\* a statement without whitespace succeeded, and so did the same statement
\* with blanks and tabs around every token
C17_SpacedWitness ==
    /\ pc = "returned" /\ first /= None
    /\ input = Spaced(first[1].input) /\ Len(input) > 3 * Len(first[1].input)
    /\ first[1].result.kind = "Ok" /\ Res.kind = "Ok"


(***************************************************************************)
(* The window                                                              *)
(***************************************************************************)
\* the arm of Analyze goes on after analyze_line has returned
AnalyzeReturns == handler = "Analyze" /\ pc = "returned" /\ pc' = "idle"

\* the String sub occurs in the String out
Contains(out, sub) ==
    \E i \in 0..(Len(out) - Len(sub)) : SubSeq(out, i + 1, i + Len(sub)) = sub

\* C19 as stated: an Analyze message calls analyze_line with the contents of
\* the text field, and afterwards syntax_output holds what was returned
\* verbatim: the error text on a failure, the reports on a success.
C19_ShowsResultVerbatim ==
    [][AnalyzeReturns =>
          /\ input = ui.content
          /\ Res.kind = "Err" => ui'.syntax_output = Res.text[1].string
          /\ Res.kind = "Ok" =>
                /\ Contains(ui'.syntax_output, report_string(Res.ids[1], "ids"))
                /\ Contains(ui'.syntax_output, report_string(Res.consts[1], "consts"))]_vars

\* C19 amended: an Analyze message with a text field that is not empty
\* calls analyze_line with its contents (with an empty one it makes no call
\* and shows a prompt).  Afterwards syntax_output holds the error text
\* verbatim on a failure; on a success it holds the contents of the text
\* field, a newline and a fixed line saying that the line belongs to the
\* language, and _syntax_success is set.  The reports are shown by a later
\* Semantics message only, which calls analyze_line again and puts the
\* identifiers report, a newline and the constants report into
\* _semantics_output.
C19_ShowsErrorOrVerdict ==
    [][/\ (pc = "idle" /\ pc' = "tokenize") =>
              /\ input' = ui.content
              /\ handler' = "Analyze" => ui.content /= <<>>
       /\ (pc = "idle" /\ pc' = "idle" /\ ui.content = <<>> /\ ui'.syntax_output /= <<>>) =>
              ui' = [ui EXCEPT !.syntax_output = <<"EnterSomething">>]
       /\ AnalyzeReturns =>
              /\ input = ui.content
              /\ Res.kind = "Err" =>
                    ui' = [ui EXCEPT !.syntax_output = Res.text[1].string]
              /\ Res.kind = "Ok" =>
                    /\ Res.ids /= None /\ Res.consts /= None
                    /\ ui' = [ui EXCEPT !._syntax_success = TRUE,
                                        !.syntax_output =
                                            ui.content \o <<"\n", "BelongsToLanguage">>]
       /\ (handler = "Semantics" /\ pc = "returned" /\ pc' = "idle") =>
              /\ input = ui.content
              /\ Res.kind = "Ok"
              /\ ui' = [ui EXCEPT !._semantics_output =
                            report_string(Res.ids[1], "ids") \o <<"\n">>
                            \o report_string(Res.consts[1], "consts")]]_vars

\* Analyze has shown the verdict for a line with an array target, and
\* Semantics after it the two reports
C19_Witness ==
    /\ pc = "idle" /\ result /= None /\ Res.kind = "Ok"
    /\ ui._syntax_success
    /\ ui.syntax_output = ui.content \o <<"\n", "BelongsToLanguage">>
    /\ Len(ui._semantics_output) > 2
    /\ ~Contains(ui.syntax_output, report_string(Res.ids[1], "ids"))

\* Analyze has shown the error text of a line that stops inside its index list
C19_ErrorWitness ==
    /\ pc = "idle" /\ result /= None /\ Res.kind = "Err"
    /\ ui.content /= <<>>
    /\ ui.syntax_output = Res.text[1].string


WellPlaced(ts, n) ==
    /\ \A i \in 1..Len(ts) : 0 <= ts[i].pos /\ ts[i].pos < n /\ ts[i].t /= "End"
    /\ \A i \in 1..(Len(ts) - 1) : ts[i].pos < ts[i + 1].pos
    /\ Len(ts) <= n

\* C22: tokenize terminates on every line.  Every call of Lexer::next_token
\* that returns a token other than End leaves pos above the offset of that
\* token, above where it was, and not beyond the length of the line, so the
\* loop runs at most length + 1 times; the sequence tokenize returns has at
\* most as many tokens as the line has bytes, their offsets grow strictly
\* and are below the length, and End is not among them.
C22_TokenizeTerminates ==
    /\ [](lexer /= None =>
             /\ WellPlaced(lexer.tokens, Len(input))
             /\ Len(lexer.tokens) <= lexer.pos /\ lexer.pos <= Len(input)
             /\ \A i \in 1..Len(lexer.tokens) : lexer.tokens[i].pos < lexer.pos)
    /\ [](parser /= None => WellPlaced(parser[1].tokens, Len(input)))
    /\ [][(pc = "tokenize" /\ pc' = "tokenize") =>
             /\ Len(lexer'.tokens) = Len(lexer.tokens) + 1
             /\ lexer.pos <= lexer'.tokens[Len(lexer'.tokens)].pos
             /\ lexer'.tokens[Len(lexer'.tokens)].pos < lexer'.pos
             /\ lexer'.pos <= Len(input)
             /\ Len(input) - lexer'.pos < Len(input) - lexer.pos]_vars

\* tokenize returned the eleven tokens of a line that ends in whitespace
C22_Witness ==
    /\ parser /= None
    /\ Len(parser[1].tokens) >= 11
    /\ input[Len(input)] \in WhiteSet
    /\ parser[1].tokens[Len(parser[1].tokens)].pos = Len(input) - 2


(***************************************************************************)
(* The flag that enables the Semantics button                              *)
(***************************************************************************)
\* Lexer::tokenize as a function of the line: Some(tokens), or None on an error
RECURSIVE tokenize(_, _, _)
tokenize(inp, pos, tokens) ==
    LET r == lexer_next_token(inp, pos) IN
    IF ~r.ok THEN None
    ELSE IF r.tok.t = "End" THEN Some(tokens)
    ELSE tokenize(inp, r.pos, Append(tokens, r.tok))

\* the line tokenizes and its tokens are a statement that does not assign
\* the array to itself
Accepted(inp) ==
    LET ts == tokenize(inp, 0, <<>>) IN ts /= None /\ Valid(ts[1])

\* C23: in the window of ui.rs, whatever messages have been handled,
\* _syntax_success is set only while the text field is not empty and holds
\* a line on which analyze_line succeeds (the line of the last call, which
\* returned Ok); every message that changes or clears the text resets the
\* flag and empties both outputs.
C23_FlagMeansAccepted ==
    /\ [](ui._syntax_success =>
             /\ ui.content /= <<>>
             /\ Accepted(ui.content)
             /\ input = ui.content
             /\ pc = "idle" => (result /= None /\ Res.kind = "Ok"))
    /\ [][(ui'.content /= ui.content \/ TextInputChanged \/ TextInputClear) =>
             /\ ~ui'._syntax_success
             /\ ui'.syntax_output = <<>>
             /\ ui'._semantics_output = <<>>]_vars

\* Analyze and Semantics have succeeded on a line, and the Input button
\* has then echoed it: the flag is still set
C23_Witness ==
    /\ pc = "idle" /\ ui._syntax_success
    /\ ui._semantics_output /= <<>>
    /\ ui.syntax_output = ui.content

(***************************************************************************)
(* The flag of main.rs                                                     *)
(***************************************************************************)
\* C24: in the window of main.rs, whatever messages have been handled,
\* _syntax_success (the Semantics button is enabled) is set only while
\* the text field holds a line that dummy_analyze accepts.
C24_MainFlagMeansAccepted ==
    (pc = "main" /\ ui._syntax_success) => dummy_analyze(ui.content).kind = "Ok"

====
